---- MODULE Spec2Model ----
(***************************************************************************)
(* A model of the TGA decoder of src/src/tga/decoder.rs: the byte reader,  *)
(* the header, the image type classification, the color map, the color     *)
(* resolution, the raw and run-length pixel readers, the color-map         *)
(* expansion, the BGR -> RGB reversal and the ImageDecoder queries.        *)
(*                                                                         *)
(* Bytes are integers 0..255.  A reader is [data, pos]: the bytes of the   *)
(* source and the number of bytes already consumed (pos may lie past the   *)
(* end after a relative seek).  u8 arithmetic wraps modulo 256, as it did  *)
(* in the Rust this file was written for.  A panic (a failed bounds check, *)
(* unreachable!(), a zero chunk size) is an outcome of its own.            *)
(***************************************************************************)
EXTENDS Integers, Sequences, FiniteSets, TLC

VARIABLES
    decoder,            \* the TGADecoder: its fields and its reader r
    pc,                 \* where the caller / the running method stands
    op,                 \* the ImageDecoder method called last
    ret,                \* what that method returned
    num_read,           \* read_encoded_data's local num_read
    pixel_data,         \* read_encoded_data's local pixel_data
    pixels,             \* read_image_data's pixel_data as handed to reverse_encoding
    data_start,         \* the reader's position when read_encoded_data was entered
    header_reads,       \* how many times Header::from_reader read a whole header
    other_channel_bits  \* read_color_information's local, -1 before it is computed

vars == <<decoder, pc, op, ret, num_read, pixel_data, pixels, data_start,
          header_reads, other_channel_bits>>

----------------------------------------------------------------------------
(* Bounds of the checked instances.                                        *)

\* longest pixel-data region (in bytes) of the uncompressed sources
MaxRaw == 3
\* longest pixel-data region (in bytes) of the run-length encoded sources
MaxBody == 4
\* largest image width of the enumerated run-length sources
MaxWidth == 2

----------------------------------------------------------------------------
(* Numbers and sequences.                                                  *)

Max(a, b) == IF a >= b THEN a ELSE b

U8(x) == x % 256

RECURSIVE Repeat(_, _)
Repeat(s, n) == IF n <= 0 THEN <<>> ELSE s \o Repeat(s, n - 1)

\* the sequences over S of length 0..n
SeqUpTo(S, n) == UNION {[1..k -> S] : k \in 0..n}

----------------------------------------------------------------------------
(* ImageType.                                                              *)

\* the classification with the codes of the two run-length color types exchanged
ImageType_new_exchanged(img_type) ==
    CASE img_type = 0  -> "NoImageData"
      [] img_type = 1  -> "RawColorMap"
      [] img_type = 2  -> "RawTrueColor"
      [] img_type = 3  -> "RawGreyScale"
      [] img_type = 10 -> "RunColorMap"
      [] img_type = 9  -> "RunTrueColor"
      [] img_type = 11 -> "RunGreyScale"
      [] OTHER         -> "Unknown"

ImageType_new(img_type) ==
    CASE img_type = 0  -> "NoImageData"
      [] img_type = 1  -> "RawColorMap"
      [] img_type = 2  -> "RawTrueColor"
      [] img_type = 3  -> "RawGreyScale"
      [] img_type = 9  -> "RunColorMap"
      [] img_type = 10 -> "RunTrueColor"
      [] img_type = 11 -> "RunGreyScale"
      [] OTHER         -> "Unknown"

is_color(image_type) ==
    image_type \in {"RawColorMap", "RawTrueColor", "RunTrueColor", "RunColorMap"}

is_color_mapped(image_type) ==
    image_type \in {"RawColorMap", "RunColorMap"}

is_encoded(image_type) ==
    image_type \in {"RunColorMap", "RunTrueColor", "RunGreyScale"}

----------------------------------------------------------------------------
(* The reader: std::io::Reader + Seek over an in-memory source.            *)

Reader(data) == [data |-> data, pos |-> 0]

\* read_exact(n): n bytes or an error; a short read consumes what is left.
\* A read of no bytes succeeds wherever the reader stands.
read_exact(r, n) ==
    IF n = 0 \/ r.pos + n <= Len(r.data)
    THEN [ok |-> TRUE,
          r |-> [r EXCEPT !.pos = @ + n],
          bytes |-> SubSeq(r.data, r.pos + 1, r.pos + n)]
    ELSE [ok |-> FALSE,
          r |-> [r EXCEPT !.pos = Max(@, Len(r.data))],
          bytes |-> <<>>]

\* a read_u8 that looks at the next byte and leaves it in the source
read_u8_peek(r) ==
    IF r.pos + 1 <= Len(r.data)
    THEN [ok |-> TRUE, r |-> r, value |-> r.data[r.pos + 1]]
    ELSE [ok |-> FALSE, r |-> r, value |-> 0]

\* the little-endian value of the bytes read by x, a result of read_exact
le_value(x) ==
    [ok |-> x.ok, r |-> x.r,
     value |-> IF ~x.ok THEN 0
               ELSE IF Len(x.bytes) = 1 THEN x.bytes[1]
               ELSE x.bytes[1] + 256 * x.bytes[2]]

read_u8(r) == le_value(read_exact(r, 1))

read_le_u16(r) == le_value(read_exact(r, 2))

\* seek(n, SeekCur) with n >= 0: never fails, may pass the end
seek_cur(r, n) == [r EXCEPT !.pos = @ + n]

----------------------------------------------------------------------------
(* Header.                                                                 *)

HeaderFields ==
    <<"id_length", "map_type", "image_type", "map_origin", "map_length",
      "map_entry_size", "x_origin", "y_origin", "image_width", "image_height",
      "pixel_depth", "image_desc">>

\* the fields read with read_le_u16; the others are read with read_u8
U16Fields == {"map_origin", "map_length", "x_origin", "y_origin",
              "image_width", "image_height"}

Header_new == [f \in {HeaderFields[i] : i \in 1..Len(HeaderFields)} |-> 0]

\* Header::from_reader from field i on: the fields are read in declared order
\* and the first failed read ends it.
RECURSIVE Header_read_from(_, _, _)
\* field i has been read, with result x: try!(..) and the fields after it
Header_field_read(x, i, h) ==
    IF ~x.ok THEN [ok |-> FALSE, r |-> x.r, header |-> h]
    ELSE Header_read_from(x.r, i + 1, [h EXCEPT ![HeaderFields[i]] = x.value])

Header_read_from(r, i, h) ==
    IF i > Len(HeaderFields) THEN [ok |-> TRUE, r |-> r, header |-> h]
    ELSE Header_field_read(IF HeaderFields[i] \in U16Fields
                           THEN read_le_u16(r) ELSE read_u8(r), i, h)

Header_from_reader(r) == Header_read_from(r, 1, Header_new)

\* the bytes of a header on disk (what from_reader parses back)
RECURSIVE Header_bytes_from(_, _)
Header_bytes_from(h, i) ==
    IF i > Len(HeaderFields) THEN <<>>
    ELSE LET f == HeaderFields[i]
         IN  (IF f \in U16Fields THEN <<h[f] % 256, h[f] \div 256>> ELSE <<h[f]>>)
             \o Header_bytes_from(h, i + 1)

Header_bytes(h) == Header_bytes_from(h, 1)

----------------------------------------------------------------------------
(* ColorMap.  None stands for Option::None.                                *)

None == [none |-> TRUE]

\* Ok(ColorMap {..}) of the bytes read by x, or its error
ColorMap_of(x, start_offset, bytes_per_entry) ==
    [ok |-> x.ok,
     r |-> x.r,
     map |-> [entry_size |-> bytes_per_entry,
              start_offset |-> start_offset,
              bytes |-> x.bytes]]

ColorMap_from_reader(r, start_offset, num_entries, bits_per_entry) ==
    LET bytes_per_entry == (bits_per_entry + 7) \div 8
    IN  ColorMap_of(read_exact(r, bytes_per_entry * num_entries),
                    start_offset, bytes_per_entry)

\* ColorMap::get: the slice [entry, entry + entry_size) of bytes, or the panic
\* of slice's bounds check
ColorMap_get(color_map, index) ==
    LET entry == color_map.start_offset + color_map.entry_size * index
    IN  IF entry + color_map.entry_size <= Len(color_map.bytes)
        THEN [ok |-> TRUE,
              bytes |-> SubSeq(color_map.bytes, entry + 1, entry + color_map.entry_size)]
        ELSE [ok |-> FALSE, bytes |-> <<>>]

----------------------------------------------------------------------------
(* ColorType and the results of the methods.                               *)

ColorType(kind, bits) == [kind |-> kind, bits |-> bits]

\* Ok(value); a ColorType is returned as its bits in value and its kind in info
Ok(value, info) == [kind |-> "Ok", value |-> value, info |-> info]

IoError == [kind |-> "IoError", value |-> <<>>, info |-> "end of file"]

UnsupportedError(info, value) ==
    [kind |-> "UnsupportedError", value |-> value, info |-> info]

Panic(info) == [kind |-> "Panic", value |-> <<>>, info |-> info]

IsOk(res) == res.kind = "Ok"

----------------------------------------------------------------------------
(* TGADecoder.                                                             *)

TGADecoder_new(r) ==
    [r |-> r,
     width |-> 0,
     height |-> 0,
     bytes_per_pixel |-> 0,
     has_loaded_metadata |-> FALSE,
     image_type |-> "Unknown",
     color_type |-> ColorType("Grey", 1),
     header |-> Header_new,
     color_map |-> None]

\* read_header once Header::from_reader has returned header: lines 179-183
set_header(self, header) ==
    [self EXCEPT !.header = header,
                 !.image_type = ImageType_new(header.image_type),
                 !.width = header.image_width,
                 !.height = header.image_height,
                 !.bytes_per_pixel = (header.pixel_depth + 7) \div 8]

\* read_header, x being what Header::from_reader returned
header_read(self, x) ==
    IF ~x.ok THEN [res |-> IoError, self |-> [self EXCEPT !.r = x.r]]
    ELSE [res |-> Ok(<<>>, ""),
          self |-> set_header([self EXCEPT !.r = x.r], x.header)]

read_header(self) == header_read(self, Header_from_reader(self.r))

read_image_id(self) ==
    [res |-> Ok(<<>>, ""),
     self |-> [self EXCEPT !.r = seek_cur(@, self.header.id_length)]]

\* self.color_map = Some(try!(x)), x being what ColorMap::from_reader returned
color_map_read(self, x) ==
    IF ~x.ok THEN [res |-> IoError, self |-> [self EXCEPT !.r = x.r]]
    ELSE [res |-> Ok(<<>>, ""),
          self |-> [self EXCEPT !.r = x.r, !.color_map = x.map]]

read_color_map(self) ==
    IF self.header.map_type = 1
    THEN color_map_read(self, ColorMap_from_reader(self.r, self.header.map_origin,
                                                   self.header.map_length,
                                                   self.header.map_entry_size))
    ELSE [res |-> Ok(<<>>, ""), self |-> self]

NumAlphaBits(header) == header.image_desc % 16

OtherChannelBits(header) ==
    IF header.map_type # 0
    THEN header.map_entry_size
    ELSE U8(header.pixel_depth - NumAlphaBits(header))

\* the depth checks of lines 203-210; the second one left out
DepthError_no_limit(header) ==
    IF header.pixel_depth % 8 # 0 THEN "Bit depth must be divisible by 8"
    ELSE ""

DepthError(header) ==
    IF header.pixel_depth % 8 # 0 THEN "Bit depth must be divisible by 8"
    ELSE IF header.pixel_depth > 32 THEN "Bit depth must be less than 32"
    ELSE ""

\* the match of lines 221-231: the color type, or None for the `_` arm
MatchColorType(num_alpha_bits, other_bits, color) ==
    CASE num_alpha_bits = 8 /\ other_bits = 24 /\ color  -> ColorType("RGBA", 8)
      [] num_alpha_bits = 0 /\ other_bits = 24 /\ color  -> ColorType("RGB", 8)
      [] num_alpha_bits = 8 /\ other_bits = 8 /\ ~color  -> ColorType("GreyA", 8)
      [] num_alpha_bits = 0 /\ other_bits = 8 /\ ~color  -> ColorType("Grey", 8)
      [] OTHER -> None

\* other is the local other_channel_bits, -1 when the method returns before it
read_color_information(self) ==
    IF DepthError(self.header) # ""
    THEN [res |-> UnsupportedError(DepthError(self.header), <<>>),
          self |-> self, other |-> -1]
    ELSE LET num_alpha_bits == NumAlphaBits(self.header)
             other == OtherChannelBits(self.header)
             color == is_color(self.image_type)
             ct == MatchColorType(num_alpha_bits, other, color)
         IN  IF ct = None
             THEN [res |-> UnsupportedError("Color format not supported",
                                            <<other, num_alpha_bits>>),
                   self |-> self, other |-> other]
             ELSE [res |-> Ok(<<>>, ""),
                   self |-> [self EXCEPT !.color_type = ct], other |-> other]

\* read_metadata: loaded counts the headers read by this call, other is the
\* other_channel_bits computed by it (-1 if none)
\* try!(self.read_color_information()) with its result d, and line 193
after_color_information(d) ==
    IF ~IsOk(d.res)
    THEN [res |-> d.res, self |-> d.self, loaded |-> 1, other |-> d.other]
    ELSE [res |-> Ok(<<>>, ""),
          self |-> [d.self EXCEPT !.has_loaded_metadata = TRUE],
          loaded |-> 1, other |-> d.other]

\* try!(self.read_color_map()) with its result c, and what follows
after_color_map(c) ==
    IF ~IsOk(c.res)
    THEN [res |-> c.res, self |-> c.self, loaded |-> 1, other |-> -1]
    ELSE after_color_information(read_color_information(c.self))

\* try!(self.read_image_id()) with its result b, and what follows
after_image_id(b) ==
    IF ~IsOk(b.res)
    THEN [res |-> b.res, self |-> b.self, loaded |-> 1, other |-> -1]
    ELSE after_color_map(read_color_map(b.self))

\* try!(self.read_header()) with its result a, and what follows
after_header(a) ==
    IF ~IsOk(a.res)
    THEN [res |-> a.res, self |-> a.self, loaded |-> 0, other |-> -1]
    ELSE after_image_id(read_image_id(a.self))

read_metadata(self) ==
    IF self.has_loaded_metadata
    THEN [res |-> Ok(<<>>, ""), self |-> self, loaded |-> 0, other |-> -1]
    ELSE after_header(read_header(self))

----------------------------------------------------------------------------
(* Pixel data: color-map expansion, channel reversal, run-length packets.  *)

\* slice.chunks(size), size > 0: the last chunk may be shorter
RECURSIVE Chunks(_, _)
Chunks(s, size) ==
    IF Len(s) = 0 THEN <<>>
    ELSE IF Len(s) <= size THEN <<s>>
    ELSE <<SubSeq(s, 1, size)>> \o Chunks(SubSeq(s, size + 1, Len(s)), size)

RECURSIVE bytes_to_index_from(_, _, _)
bytes_to_index_from(bytes, i, result) ==
    IF i > Len(bytes) THEN result
    ELSE bytes_to_index_from(bytes, i + 1, result * 256 + bytes[i])

bytes_to_index(bytes) == bytes_to_index_from(bytes, 1, 0)

\* the loop of lines 275-278 from chunk i on
RECURSIVE expand_chunks(_, _, _, _)
\* result.push_all(e) for the entry e of chunk i, and the chunks after it
expand_chunk(color_map, chunks, i, result, e) ==
    IF ~e.ok
    THEN [res |-> Panic("ColorMap::get: slice out of bounds"), data |-> <<>>]
    ELSE expand_chunks(color_map, chunks, i + 1, result \o e.bytes)

expand_chunks(color_map, chunks, i, result) ==
    IF i > Len(chunks) THEN [res |-> Ok(<<>>, ""), data |-> result]
    ELSE expand_chunk(color_map, chunks, i, result,
                      ColorMap_get(color_map, bytes_to_index(chunks[i])))

expand_color_map(self, data) ==
    IF self.color_map = None
    THEN [res |-> Panic("expand_color_map: unreachable"), data |-> <<>>]
    ELSE IF self.bytes_per_pixel = 0
    THEN [res |-> Panic("chunks: chunk size is 0"), data |-> <<>>]
    ELSE expand_chunks(self.color_map, Chunks(data, self.bytes_per_pixel), 1, <<>>)

\* chunk[0] and chunk[2] exchanged, for a chunk of 3 bytes or more
SwapRedBlue(chunk) ==
    [i \in 1..Len(chunk) |-> IF i = 1 THEN chunk[3] ELSE IF i = 3 THEN chunk[1]
                             ELSE chunk[i]]

RECURSIVE reverse_chunks(_, _, _)
reverse_chunks(chunks, i, result) ==
    IF i > Len(chunks) THEN [res |-> Ok(<<>>, ""), data |-> result]
    ELSE IF Len(chunks[i]) < 3
    THEN [res |-> Panic("reverse_encoding: index out of bounds"), data |-> <<>>]
    ELSE reverse_chunks(chunks, i + 1, result \o SwapRedBlue(chunks[i]))

reverse_encoding(self, data) ==
    IF self.color_type \in {ColorType("RGB", 8), ColorType("RGBA", 8)}
    THEN IF self.bytes_per_pixel = 0
         THEN [res |-> Panic("chunks_mut: chunk size is 0"), data |-> <<>>]
         ELSE reverse_chunks(Chunks(data, self.bytes_per_pixel), 1, <<>>)
    ELSE [res |-> Ok(<<>>, ""), data |-> data]

\* read_image_data from line 292 on, data being the pixels read: res is what
\* read_image_data returns, pixels what reverse_encoding was given
\* line 297-298, v being what reverse_encoding made of data
reversed(data, v) ==
    IF ~IsOk(v.res) THEN [res |-> v.res, pixels |-> data]
    ELSE [res |-> Ok(v.data, ""), pixels |-> data]

\* line 294, e being what expand_color_map returned (or the data as read)
expanded(self, e) ==
    IF ~IsOk(e.res) THEN [res |-> e.res, pixels |-> <<>>]
    ELSE reversed(e.data, reverse_encoding(self, e.data))

finish_image_data(self, data) ==
    expanded(self, IF is_color_mapped(self.image_type)
                   THEN expand_color_map(self, data)
                   ELSE [res |-> Ok(<<>>, ""), data |-> data])

\* what a raw packet adds to num_read if it counted its c + 1 pixels
RawRunPixels_counted(run_packet) == run_packet + 1

\* what a raw packet adds to num_read: line 327
RawRunPixels(run_packet) == run_packet

\* lines 316-321, x being what read_exact(bytes_per_pixel) returned
repeat_packet(run_packet, x, n_read, data) ==
    LET repeat_count == (run_packet - 128) + 1
    IN  IF ~x.ok
        THEN [ok |-> FALSE, r |-> x.r, num_read |-> n_read, data |-> data]
        ELSE [ok |-> TRUE, r |-> x.r,
              num_read |-> n_read + repeat_count,
              data |-> data \o Repeat(x.bytes, repeat_count)]

\* lines 324-327, x being what read_exact(num_raw_bytes) returned
raw_packet(run_packet, x, n_read, data) ==
    IF ~x.ok
    THEN [ok |-> FALSE, r |-> x.r, num_read |-> n_read, data |-> data]
    ELSE [ok |-> TRUE, r |-> x.r,
          num_read |-> n_read + RawRunPixels(run_packet),
          data |-> data \o x.bytes]

\* lines 309-328, c being what read_u8 returned
packet(c, bytes_per_pixel, n_read, data) ==
    IF ~c.ok THEN [ok |-> FALSE, r |-> c.r, num_read |-> n_read, data |-> data]
    ELSE IF c.value >= 128
    THEN repeat_packet(c.value, read_exact(c.r, bytes_per_pixel), n_read, data)
    ELSE raw_packet(c.value, read_exact(c.r, (c.value + 1) * bytes_per_pixel),
                    n_read, data)

\* an iteration that looks at the control byte and leaves it in the source
read_packet_peek(r, bytes_per_pixel, n_read, data) ==
    packet(read_u8_peek(r), bytes_per_pixel, n_read, data)

\* one iteration of the loop of read_encoded_data
read_packet(r, bytes_per_pixel, n_read, data) ==
    packet(read_u8(r), bytes_per_pixel, n_read, data)

----------------------------------------------------------------------------
(* The sources the decoders are built over.                                *)

\* a header with the origins 0
Hdr(id_length, map_type, image_type, map_origin, map_length, map_entry_size, image_width, image_height, pixel_depth, image_desc) ==
    [id_length |-> id_length, map_type |-> map_type, image_type |-> image_type,
     map_origin |-> map_origin, map_length |-> map_length,
     map_entry_size |-> map_entry_size, x_origin |-> 0, y_origin |-> 0,
     image_width |-> image_width, image_height |-> image_height,
     pixel_depth |-> pixel_depth, image_desc |-> image_desc]

\* the image-ID bytes and the color-map bytes a file with header h carries
\* (the layout of section 6 of the format: a map only with map_type 1)
IdBytes(h) == [i \in 1..h.id_length |-> 7]

MapBytes(h) ==
    IF h.map_type = 1
    THEN [i \in 1..(h.map_length * ((h.map_entry_size + 7) \div 8)) |-> 9 + i]
    ELSE <<>>

File(h, body) == Header_bytes(h) \o IdBytes(h) \o MapBytes(h) \o body

\* uncompressed images of one pixel, with and without a color map
RawHeaders ==
    {Hdr(0, mt, it, mo, ml, mes, 1, 1, pd, desc) :
        mt \in {0, 1, 2}, it \in {1, 2, 3}, mo \in {0, 1},
        ml \in {1, 2}, mes \in {8, 24}, pd \in {8, 24}, desc \in {0, 8}}
    \cup {Hdr(1, mt, it, 0, 1, 24, 1, 1, 24, 0) : mt \in {0, 1}, it \in {1, 2}}

RawSources == {File(h, body) : h \in RawHeaders, body \in SeqUpTo({0, 1}, MaxRaw)}

\* run-length encoded images: (image_type, map_type, map_entry_size, pixel_depth)
RleKinds ==
    {<<11, 0, 0, 8>>, <<11, 1, 8, 0>>, <<10, 0, 0, 24>>, <<10, 1, 24, 8>>,
     <<10, 1, 24, 0>>, <<9, 0, 0, 24>>, <<9, 1, 24, 8>>, <<9, 1, 24, 0>>,
     <<9, 1, 24, 24>>}

RleHeaders ==
    {Hdr(0, k[2], k[1], 0, 2, k[3], w, 1, k[4], 0) :
        k \in RleKinds, w \in 1..MaxWidth}

\* control bytes 0 and 1 (raw packets of 1 and 2 pixels) and 129 (a repeat of
\* 2 pixels), which are the pixel values too
RleBodies == SeqUpTo({0, 1, 129}, MaxBody)

RleSources == {File(h, body) : h \in RleHeaders, body \in RleBodies}

\* sources cut short: no header, half a header, a header without its map
ShortSources ==
    {<<>>,
     SubSeq(Header_bytes(Hdr(0, 0, 3, 0, 0, 0, 1, 1, 8, 0)), 1, 9),
     Header_bytes(Hdr(0, 1, 1, 0, 2, 24, 1, 1, 24, 0)),
     Header_bytes(Hdr(3, 0, 3, 0, 0, 0, 1, 1, 8, 0))}

\* a header the color resolution rejects (16 bits, 32 + 8 bits), then a whole file
RejectedHeaders == {Hdr(0, 0, 2, 0, 0, 0, 1, 1, 16, 0), Hdr(0, 0, 2, 0, 0, 0, 1, 1, 40, 8)}

RejectedSources ==
    {Header_bytes(b) \o File(Hdr(0, 0, it, 0, 0, 0, 1, 1, 8, 0), body) :
        b \in RejectedHeaders, it \in {3, 11}, body \in {<<5>>, <<128, 5>>}}

Sources == RawSources \cup RleSources \cup ShortSources \cup RejectedSources

----------------------------------------------------------------------------
(* The decoder driven through the ImageDecoder trait.                      *)

Init ==
    /\ \E s \in Sources : decoder = TGADecoder_new(Reader(s))
    /\ pc = "idle"
    /\ op = "new"
    /\ ret = Ok(<<>>, "")
    /\ num_read = 0
    /\ pixel_data = <<>>
    /\ pixels = <<>>
    /\ data_start = 0
    /\ header_reads = 0
    /\ other_channel_bits = -1

\* what every method does first: try!(self.read_metadata())
Metadata(m) ==
    /\ header_reads' = header_reads + m.loaded
    /\ other_channel_bits' = IF m.other # -1 THEN m.other ELSE other_channel_bits

Dimensions ==
    /\ pc = "idle"
    /\ \E m \in {read_metadata(decoder)} :
           /\ Metadata(m)
           /\ decoder' = m.self
           /\ ret' = IF IsOk(m.res) THEN Ok(<<m.self.width, m.self.height>>, "")
                     ELSE m.res
    /\ op' = "dimensions"
    /\ UNCHANGED <<pc, num_read, pixel_data, pixels, data_start>>

Colortype ==
    /\ pc = "idle"
    /\ \E m \in {read_metadata(decoder)} :
           /\ Metadata(m)
           /\ decoder' = m.self
           /\ ret' = IF IsOk(m.res)
                     THEN Ok(<<m.self.color_type.bits>>, m.self.color_type.kind)
                     ELSE m.res
    /\ op' = "colortype"
    /\ UNCHANGED <<pc, num_read, pixel_data, pixels, data_start>>

RowLen ==
    /\ pc = "idle"
    /\ \E m \in {read_metadata(decoder)} :
           /\ Metadata(m)
           /\ decoder' = m.self
           /\ ret' = IF IsOk(m.res)
                     THEN Ok(<<m.self.bytes_per_pixel * 8 * m.self.width>>, "")
                     ELSE m.res
    /\ op' = "row_len"
    /\ UNCHANGED <<pc, num_read, pixel_data, pixels, data_start>>

ReadScanline ==
    /\ pc = "idle"
    /\ pc' = "dead"
    /\ op' = "read_scanline"
    /\ ret' = Panic("not yet implemented")
    /\ UNCHANGED <<decoder, num_read, pixel_data, pixels, data_start,
                   header_reads, other_channel_bits>>

\* read_image up to the loop of read_encoded_data, or to its end for an image
\* that is not run-length encoded
ReadImage ==
    /\ pc = "idle"
    /\ op' = "read_image"
    /\ \E m \in {read_metadata(decoder)} :
           /\ Metadata(m)
           /\ IF ~IsOk(m.res)
              THEN /\ decoder' = m.self
                   /\ ret' = m.res
                   /\ pc' = "idle"
                   /\ UNCHANGED <<num_read, pixel_data, pixels, data_start>>
              ELSE IF is_encoded(m.self.image_type)
              THEN /\ decoder' = m.self
                   /\ pc' = "rle"
                   /\ num_read' = 0
                   /\ pixel_data' = <<>>
                   /\ data_start' = m.self.r.pos
                   /\ UNCHANGED <<ret, pixels>>
              ELSE \E x \in {read_exact(m.self.r, m.self.width * m.self.height
                                                  * m.self.bytes_per_pixel)} :
                   /\ decoder' = [m.self EXCEPT !.r = x.r]
                   /\ UNCHANGED <<num_read, pixel_data, data_start>>
                   /\ IF ~x.ok
                      THEN /\ ret' = IoError
                           /\ pc' = "idle"
                           /\ UNCHANGED pixels
                      ELSE \E f \in {finish_image_data(m.self, x.bytes)} :
                           /\ ret' = f.res
                           /\ pixels' = f.pixels
                           /\ pc' = IF f.res.kind = "Panic" THEN "dead" ELSE "idle"

\* one iteration of `while num_read < num_pixels`
RleStep ==
    /\ pc = "rle"
    /\ num_read < decoder.width * decoder.height
    /\ \E p \in {read_packet(decoder.r, decoder.bytes_per_pixel, num_read,
                             pixel_data)} :
           /\ decoder' = [decoder EXCEPT !.r = p.r]
           /\ IF p.ok
              THEN /\ num_read' = p.num_read
                   /\ pixel_data' = p.data
                   /\ UNCHANGED <<pc, ret>>
              ELSE /\ pc' = "idle"
                   /\ ret' = IoError
                   /\ UNCHANGED <<num_read, pixel_data>>
    /\ UNCHANGED <<op, pixels, data_start, header_reads, other_channel_bits>>

\* the loop is left: read_encoded_data returns pixel_data and read_image_data
\* goes on from line 292
RleExit ==
    /\ pc = "rle"
    /\ ~(num_read < decoder.width * decoder.height)
    /\ \E f \in {finish_image_data(decoder, pixel_data)} :
           /\ ret' = f.res
           /\ pixels' = f.pixels
           /\ pc' = IF f.res.kind = "Panic" THEN "dead" ELSE "idle"
    /\ UNCHANGED <<decoder, op, num_read, pixel_data, data_start,
                   header_reads, other_channel_bits>>

Next ==
    \/ Dimensions
    \/ Colortype
    \/ RowLen
    \/ ReadScanline
    \/ ReadImage
    \/ RleStep
    \/ RleExit

Spec == Init /\ [][Next]_vars

----------------------------------------------------------------------------
(* read_image alone over run-length encoded sources with bytes_per_pixel 1 *)
(* and 0.  A call runs to completion: the loop of read_encoded_data is not *)
(* abandoned between two iterations.                                       *)

LiveKinds == {<<11, 0, 0, 8>>, <<11, 1, 8, 0>>, <<9, 1, 24, 0>>}

LiveSources ==
    {File(Hdr(0, k[2], k[1], 0, 2, k[3], w, 1, k[4], 0), body) :
        k \in LiveKinds, w \in 1..MaxWidth, body \in RleBodies}

LiveInit ==
    /\ \E s \in LiveSources : decoder = TGADecoder_new(Reader(s))
    /\ pc = "idle"
    /\ op = "new"
    /\ ret = Ok(<<>>, "")
    /\ num_read = 0
    /\ pixel_data = <<>>
    /\ pixels = <<>>
    /\ data_start = 0
    /\ header_reads = 0
    /\ other_channel_bits = -1

LiveNext ==
    \/ ReadImage
    \/ RleStep
    \/ RleExit

LiveSpec ==
    LiveInit /\ [][LiveNext]_vars /\ WF_vars(RleStep) /\ WF_vars(RleExit)

----------------------------------------------------------------------------
(* read_metadata statement by statement, over headers of every image type *)
(* and of many depths, map types, map entry sizes and descriptors.         *)

TypeHeaders == {Hdr(0, 0, it, 0, 0, 0, 1, 1, 24, 0) : it \in 0..255}

ColorHeaders ==
    {Hdr(0, mt, it, 0, 1, mes, 1, 1, pd, desc) :
        mt \in {0, 1, 2}, it \in {0, 1, 2, 3, 9, 10, 11, 12},
        mes \in {0, 8, 24, 32}, pd \in {0, 8, 12, 16, 24, 32, 40},
        desc \in {0, 8, 15, 40}}

MetaSources ==
    {File(h, <<>>) : h \in TypeHeaders \cup ColorHeaders} \cup ShortSources

MetaInit ==
    /\ \E s \in MetaSources : decoder = TGADecoder_new(Reader(s))
    /\ pc = "read_header"
    /\ op = "read_metadata"
    /\ ret = Ok(<<>>, "")
    /\ num_read = 0
    /\ pixel_data = <<>>
    /\ pixels = <<>>
    /\ data_start = 0
    /\ header_reads = 0
    /\ other_channel_bits = -1

\* try!(..): the next statement, or the error returned
Try(res, next) ==
    /\ ret' = res
    /\ pc' = IF IsOk(res) THEN next ELSE "failed"
    /\ UNCHANGED <<num_read, pixel_data, pixels, data_start>>

StepReadHeader ==
    /\ pc = "read_header"
    /\ ~decoder.has_loaded_metadata
    /\ \E a \in {read_header(decoder)} :
           /\ decoder' = a.self
           /\ header_reads' = header_reads + (IF IsOk(a.res) THEN 1 ELSE 0)
           /\ Try(a.res, "read_image_id")
    /\ op' = "read_header"
    /\ UNCHANGED other_channel_bits

StepReadImageId ==
    /\ pc = "read_image_id"
    /\ \E b \in {read_image_id(decoder)} :
           /\ decoder' = b.self
           /\ Try(b.res, "read_color_map")
    /\ op' = "read_image_id"
    /\ UNCHANGED <<header_reads, other_channel_bits>>

StepReadColorMap ==
    /\ pc = "read_color_map"
    /\ \E c \in {read_color_map(decoder)} :
           /\ decoder' = c.self
           /\ Try(c.res, "read_color_information")
    /\ op' = "read_color_map"
    /\ UNCHANGED <<header_reads, other_channel_bits>>

\* read_color_information and, when it succeeds, line 193
StepReadColorInformation ==
    /\ pc = "read_color_information"
    /\ \E d \in {after_color_information(read_color_information(decoder))} :
           /\ decoder' = d.self
           /\ other_channel_bits' = d.other
           /\ Try(d.res, "loaded")
    /\ op' = "read_color_information"
    /\ UNCHANGED header_reads

MetaNext ==
    \/ StepReadHeader
    \/ StepReadImageId
    \/ StepReadColorMap
    \/ StepReadColorInformation

MetaSpec == MetaInit /\ [][MetaNext]_vars

----------------------------------------------------------------------------
(* The claims.                                                             *)

\* read_image has returned (or panicked) in this state
ReadImageDone == op = "read_image" /\ pc \in {"idle", "dead"}

\* C1: over any sequence of queries on one instance, whatever they returned,
\* the header is read from the source at most once.
C1_HeaderReadAtMostOnce == header_reads <= 1

C2_SwapIndex(i, bpp) ==
    IF (i - 1) % bpp = 0 THEN i + 2 ELSE IF (i - 1) % bpp = 2 THEN i - 2 ELSE i

C2_ReversalReached ==
    /\ ReadImageDone
    /\ decoder.has_loaded_metadata
    /\ \/ ret.kind = "Ok"
       \/ ret \in {Panic("reverse_encoding: index out of bounds"),
                   Panic("chunks_mut: chunk size is 0")}

\* C2: when read_image reaches the channel reversal, the buffer it returns is
\* the finalized pixel data with byte 0 and byte 2 of every bytes_per_pixel
\* chunk exchanged if the color type is RGB(8) or RGBA(8) (every chunk having
\* at least 3 bytes, so nothing outside a chunk is touched), and the finalized
\* pixel data unchanged for Grey(8) and GreyA(8).
C2_ChannelReversal ==
    C2_ReversalReached =>
        IF decoder.color_type \in {ColorType("RGB", 8), ColorType("RGBA", 8)}
        THEN /\ ret.kind = "Ok"
             /\ decoder.bytes_per_pixel >= 3
             /\ Len(pixels) % decoder.bytes_per_pixel = 0
             /\ Len(ret.value) = Len(pixels)
             /\ \A i \in 1..Len(pixels) :
                    ret.value[i] = pixels[C2_SwapIndex(i, decoder.bytes_per_pixel)]
        ELSE ret.kind = "Ok" /\ ret.value = pixels

\* C3: other_channel_bits is map_entry_size exactly when the image type is
\* color-mapped, and pixel_depth - num_alpha_bits for every other image type.
C3_OtherBitsByImageType ==
    (op = "read_color_information" /\ other_channel_bits # -1) =>
        other_channel_bits =
            IF decoder.image_type \in {"RawColorMap", "RunColorMap"}
            THEN decoder.header.map_entry_size
            ELSE U8(decoder.header.pixel_depth - (decoder.header.image_desc % 16))

C4_Triples ==
    (<<8, 24, TRUE>> :> ColorType("RGBA", 8)) @@ (<<0, 24, TRUE>> :> ColorType("RGB", 8))
    @@ (<<8, 8, FALSE>> :> ColorType("GreyA", 8)) @@ (<<0, 8, FALSE>> :> ColorType("Grey", 8))

C5_Packet(data, pos, bpp) ==
    LET c == data[pos + 1]
        payload == IF c >= 128 THEN bpp ELSE (c + 1) * bpp
        bytes == IF pos + 1 + payload > Len(data) THEN <<>>
                 ELSE SubSeq(data, pos + 2, pos + 1 + payload)
    IN  [short |-> pos + 1 + payload > Len(data),
         end |-> pos + 1 + payload,
         appended |-> IF c >= 128 THEN Repeat(bytes, (c % 128) + 1) ELSE bytes,
         counted |-> IF c >= 128 THEN (c % 128) + 1 ELSE c]

C5_Iteration ==
    pc = "rle" =>
        IF num_read < decoder.width * decoder.height
        THEN IF \/ decoder.r.pos >= Len(decoder.r.data)
                \/ C5_Packet(decoder.r.data, decoder.r.pos, decoder.bytes_per_pixel).short
             THEN pc' = "idle" /\ ret' = IoError
             ELSE LET p == C5_Packet(decoder.r.data, decoder.r.pos,
                                     decoder.bytes_per_pixel)
                  IN  /\ pc' = "rle"
                      /\ decoder'.r.pos = p.end
                      /\ pixel_data' = pixel_data \o p.appended
                      /\ num_read' = num_read + p.counted
        ELSE pc' # "rle" /\ decoder' = decoder /\ ret'.kind # "IoError"

C6_Variants ==
    (0 :> "NoImageData") @@ (1 :> "RawColorMap") @@ (2 :> "RawTrueColor")
    @@ (3 :> "RawGreyScale") @@ (9 :> "RunColorMap") @@ (10 :> "RunTrueColor")
    @@ (11 :> "RunGreyScale")

\* C6: ImageType::new maps every byte to a variant, 0, 1, 2, 3, 9, 10, 11 to
\* the seven named ones and every other byte to Unknown, and the three
\* predicates hold of exactly the variants of their tables.
C6_Classification ==
    (pc # "read_header" /\ header_reads = 1) =>
        LET b == decoder.header.image_type
            t == decoder.image_type
        IN  /\ b \in 0..255
            /\ t = IF b \in DOMAIN C6_Variants THEN C6_Variants[b] ELSE "Unknown"
            /\ is_color(t) <=> t \in {"RawColorMap", "RawTrueColor",
                                      "RunTrueColor", "RunColorMap"}
            /\ is_color_mapped(t) <=> t \in {"RawColorMap", "RunColorMap"}
            /\ is_encoded(t) <=> t \in {"RunColorMap", "RunTrueColor",
                                        "RunGreyScale"}

C6_Witness ==
    /\ pc = "read_image_id"
    /\ decoder.header.image_type = 11
    /\ decoder.image_type = "RunGreyScale"

\* C7: a loaded color map holds map_length * ceil(map_entry_size / 8) bytes
\* and get(index) is, for every index below map_length and whatever
\* map_origin is, a slice of entry_size bytes inside that buffer.
C7_GetInBounds ==
    decoder.color_map # None =>
        LET cm == decoder.color_map
            h == decoder.header
        IN  /\ Len(cm.bytes) = h.map_length * ((h.map_entry_size + 7) \div 8)
            /\ \A index \in 0..(h.map_length - 1) :
                   /\ ColorMap_get(cm, index).ok
                   /\ Len(ColorMap_get(cm, index).bytes) = cm.entry_size
                   /\ cm.start_offset + cm.entry_size * (index + 1) <= Len(cm.bytes)

\* C8: when read_image reaches the color-map expansion there is a color map:
\* the unreachable!() of expand_color_map is not executed.
C8_ColorMapPresent ==
    (/\ ReadImageDone
     /\ decoder.has_loaded_metadata
     /\ is_color_mapped(decoder.image_type)
     /\ ret.kind \in {"Ok", "Panic"}) =>
        /\ decoder.color_map # None
        /\ ret # Panic("expand_color_map: unreachable")

RECURSIVE C9_Decode(_, _, _, _, _, _)
C9_Decode(data, pos, bpp, num_pixels, n, out) ==
    IF n >= num_pixels THEN [exact |-> n = num_pixels, end |-> pos, pixels |-> out]
    ELSE IF pos >= Len(data) THEN [exact |-> FALSE, end |-> pos, pixels |-> out]
    ELSE LET c == data[pos + 1]
             count == (c % 128) + 1
             payload == IF c >= 128 THEN bpp ELSE count * bpp
             bytes == SubSeq(data, pos + 2, pos + 1 + payload)
         IN  IF pos + 1 + payload > Len(data)
             THEN [exact |-> FALSE, end |-> pos, pixels |-> out]
             ELSE C9_Decode(data, pos + 1 + payload, bpp, num_pixels, n + count,
                            out \o (IF c >= 128 THEN Repeat(bytes, count) ELSE bytes))

C9_Region ==
    C9_Decode(decoder.r.data, data_start, decoder.bytes_per_pixel,
              decoder.width * decoder.height, 0, <<>>)

\* C9: when the packets at the start of the pixel region encode exactly
\* width * height pixels, read_encoded_data consumes those packets and nothing
\* more and returns the width * height * bytes_per_pixel bytes they encode.
C9_ExactPackets ==
    (/\ ReadImageDone
     /\ decoder.has_loaded_metadata
     /\ is_encoded(decoder.image_type)
     /\ C9_Region.exact) =>
        /\ ret.kind # "IoError"
        /\ decoder.r.pos = C9_Region.end
        /\ pixel_data = C9_Region.pixels
        /\ Len(pixel_data) = decoder.width * decoder.height * decoder.bytes_per_pixel

\* C10: the run-length loop ends, with the buffer returned or with an I/O
\* error, over every finite source; raw packets with control byte 0, which add
\* nothing to num_read, do not keep it running.
C10_LoopTerminates == (pc = "rle") ~> (pc # "rle")

\* a raw packet with control byte 0 has been read: a pixel consumed, num_read 0
C10_Witness ==
    /\ pc = "rle"
    /\ num_read = 0
    /\ decoder.r.pos = data_start + 1 + decoder.bytes_per_pixel
    /\ decoder.width * decoder.height > 0

====
